---- MODULE Spec2Model ----
(***************************************************************************)
(* Delivery cost estimator: calculate_delivery_cost (src/util.py, inlined  *)
(* again in src/app.py) and haversine_distance (src/geoutil.py, inlined    *)
(* again in src/app.py).                                                   *)
(*                                                                         *)
(* Numbers are decimal fractions [n |-> numerator, d |-> denominator] with *)
(* d a power of ten; +, -, * and comparison are exact, round(x, 2) rounds  *)
(* to hundredths, ties to even, as Python's round does on a value it holds *)
(* exactly.  The trigonometric functions return irrational values, so the  *)
(* distance computation works at a finite precision: three decimals, every *)
(* library result and every product rounded to it.                         *)
(***************************************************************************)
EXTENDS Integers, FiniteSets, Sequences, TLC

VARIABLES distance_km, base_fee, per_km_rate, surge_multiplier,
          discount_percent, min_total, cost_breakdown, pc,
          pickup_lat, pickup_lon, drop_lat, drop_lon, distance

costVars == <<distance_km, base_fee, per_km_rate, surge_multiplier,
              discount_percent, min_total, cost_breakdown>>

geoVars == <<pickup_lat, pickup_lon, drop_lat, drop_lon, distance>>

vars == <<costVars, geoVars, pc>>

\* ---------------------------------------------------------------- bounds
MaxDistance == 2
MaxRate == 1
MaxFee == 1
MaxSurge == 1
MaxDiscount == 3
MaxMinTotal == 1
MaxLat == 2
MaxLon == 2

\* ------------------------------------------------- decimal arithmetic
Rat(n, d) == [n |-> n, d |-> d]

CommonDen(x, y) == IF x.d >= y.d THEN x.d ELSE y.d

ScaleTo(x, d) == x.n * (d \div x.d)

Add(x, y) == Rat(ScaleTo(x, CommonDen(x, y)) + ScaleTo(y, CommonDen(x, y)), CommonDen(x, y))

Sub(x, y) == Rat(ScaleTo(x, CommonDen(x, y)) - ScaleTo(y, CommonDen(x, y)), CommonDen(x, y))

Mul(x, y) == Rat(x.n * y.n, x.d * y.d)

DivInt(x, k) == Rat(x.n, x.d * k)

Less(x, y) == ScaleTo(x, CommonDen(x, y)) < ScaleTo(y, CommonDen(x, y))

Eq(x, y) == ScaleTo(x, CommonDen(x, y)) = ScaleTo(y, CommonDen(x, y))

Leq(x, y) == Less(x, y) \/ Eq(x, y)

\* max(a, b) of Python: b when b > a, else a
Max(a, b) == IF Less(a, b) THEN b ELSE a

\* n / q rounded to the nearest integer, ties to the even one (q > 0)
RoundHalfEven(n, q) ==
    LET f == n \div q
        r == n % q
    IN  IF 2 * r < q THEN f
        ELSE IF 2 * r > q THEN f + 1
        ELSE IF f % 2 = 0 THEN f ELSE f + 1

\* round(x, 2)
Round2(x) ==
    IF x.d <= 100 THEN Rat(x.n * (100 \div x.d), 100)
    ELSE Rat(RoundHalfEven(x.n, x.d \div 100), 100)

\* --------------------------------------------- calculate_delivery_cost
DistanceCost(d, r) == Mul(d, r)

\* a slip: the distance cost taken off the base fee
SubtotalMinus(d, b, r) == Sub(b, DistanceCost(d, r))

Subtotal(d, b, r) == Add(b, DistanceCost(d, r))

Surcharged(d, b, r, m) == Mul(Subtotal(d, b, r), m)

\* a slip: the discount taken off the subtotal, the surge added afterwards
DiscountedBeforeSurge(d, b, r, m, p) ==
    Add(Mul(Subtotal(d, b, r), Sub(Rat(1, 1), DivInt(p, 100))),
        Sub(Surcharged(d, b, r, m), Subtotal(d, b, r)))

Discounted(d, b, r, m, p) ==
    Mul(Surcharged(d, b, r, m), Sub(Rat(1, 1), DivInt(p, 100)))

\* a slip: the floor left out
TotalNoFloor(d, b, r, m, p, t) == Discounted(d, b, r, m, p)

Total(d, b, r, m, p, t) == Max(Discounted(d, b, r, m, p), t)

\* a slip: operands exchanged
SurgeAmountSwapped(d, b, r, m) == Round2(Sub(Subtotal(d, b, r), Surcharged(d, b, r, m)))

\* a slip: the surcharged amount reported instead of the increment
SurgeAmountWhole(d, b, r, m) == Round2(Surcharged(d, b, r, m))

SurgeAmount(d, b, r, m) == Round2(Sub(Surcharged(d, b, r, m), Subtotal(d, b, r)))

\* a slip: operands exchanged
DiscountAmountSwapped(d, b, r, m, p) ==
    Round2(Sub(Discounted(d, b, r, m, p), Surcharged(d, b, r, m)))

DiscountAmount(d, b, r, m, p) ==
    Round2(Sub(Surcharged(d, b, r, m), Discounted(d, b, r, m, p)))

\* a variant that reconciles the discount with the floored total
calculate_delivery_cost_reconciled(d, b, r, m, p, t) ==
    [ base_fee         |-> b,
      distance_cost    |-> Round2(DistanceCost(d, r)),
      subtotal         |-> Round2(Subtotal(d, b, r)),
      surge_multiplier |-> m,
      surge_amount     |-> SurgeAmount(d, b, r, m),
      discount_percent |-> p,
      discount_amount  |-> Round2(Sub(Surcharged(d, b, r, m), Total(d, b, r, m, p, t))),
      final_total      |-> Round2(Total(d, b, r, m, p, t)) ]

calculate_delivery_cost(d, b, r, m, p, t) ==
    [ base_fee         |-> b,
      distance_cost    |-> Round2(DistanceCost(d, r)),
      subtotal         |-> Round2(Subtotal(d, b, r)),
      surge_multiplier |-> m,
      surge_amount     |-> SurgeAmount(d, b, r, m),
      discount_percent |-> p,
      discount_amount  |-> DiscountAmount(d, b, r, m, p),
      final_total      |-> Round2(Total(d, b, r, m, p, t)) ]

\* ------------------------------------------------------------- inputs
\* kilometres, in hundredths
Distances == {Rat(n, 100) : n \in {0, 436, 1000} \cup (1..MaxDistance)}

\* currency per kilometre, in tenths
Rates == {Rat(n, 10) : n \in {100} \cup {5 * i : i \in (-MaxRate)..MaxRate}}

\* currency, in thousandths
BaseFees == {Rat(n, 1000) : n \in {20000} \cup {15 * i : i \in (-MaxFee)..MaxFee}}

\* factor, in tenths
Surges == {Rat(n, 10) : n \in {15} \cup {10 * i : i \in (-MaxSurge)..MaxSurge}}

\* percent, whole numbers
Discounts == {Rat(n, 1) : n \in {20} \cup {50 * i : i \in 0..MaxDiscount}}

\* currency, in thousandths
MinTotals == {Rat(n, 1000) : n \in {30000} \cup {4 * i : i \in 0..MaxMinTotal}}

\* ------------------------------------------------- haversine_distance
Abs(x) == IF x < 0 THEN -x ELSE x

\* product of two three-decimal values, rounded to three decimals
FMul(x, y) == RoundHalfEven(x * y, 1000)

\* math.radians: degrees * pi / 180, in thousandths of a radian
Radians(deg) == RoundHalfEven(deg * 3142, 180)

\* sin of 0, 5, ..., 90 degrees, in thousandths
SinTable == <<0, 87, 174, 259, 342, 423, 500, 574, 643, 707,
              766, 819, 866, 906, 940, 966, 985, 996, 1000>>

\* sin of a multiple of five degrees in -360..360
SinDeg(g) ==
    LET u == Abs(g) % 360
        v == IF u <= 90 THEN SinTable[(u \div 5) + 1]
             ELSE IF u <= 180 THEN SinTable[((180 - u) \div 5) + 1]
             ELSE IF u <= 270 THEN -SinTable[((u - 180) \div 5) + 1]
             ELSE -SinTable[((360 - u) \div 5) + 1]
    IN  IF g < 0 THEN -v ELSE v

CosDeg(g) == SinDeg(90 - Abs(g))

\* the multiple of five degrees whose radian value is nearest to x
NearestDeg(x) ==
    5 * (CHOOSE k \in (-72)..72 :
            \A j \in (-72)..72 : Abs(Radians(5 * k) - x) <= Abs(Radians(5 * j) - x))

\* math.sin, math.cos of thousandths of a radian
Sin(x) == SinDeg(NearestDeg(x))

Cos(x) == CosDeg(NearestDeg(x))

\* math.sqrt of a non-negative three-decimal value, rounded to nearest
Sqrt(x) ==
    LET n == x * 1000
        f == CHOOSE r \in 0..(IF x > 1000 THEN x ELSE 1000) : r * r <= n /\ (r + 1) * (r + 1) > n
    IN  IF n - f * f > f THEN f + 1 ELSE f

\* math.atan2(y, x) for y >= 0, x >= 0: the angle of the five-degree grid
\* in 0..90 whose direction is nearest to (x, y), in thousandths of a radian
Atan2(y, x) ==
    LET cross(k) == Abs(SinTable[k + 1] * x - SinTable[19 - k] * y)
        best == CHOOSE k \in 0..18 :
                    /\ \A j \in 0..18 : cross(k) <= cross(j)
                    /\ \A j \in 0..(k - 1) : cross(j) > cross(k)
    IN  Radians(5 * best)

\* a slip: the first latitude's cosine used twice
HaversineAOneLatitude(lat1, lon1, lat2, lon2) ==
    LET rlat1 == Radians(lat1)
        rlon1 == Radians(lon1)
        rlat2 == Radians(lat2)
        rlon2 == Radians(lon2)
        dlat == rlat2 - rlat1
        dlon == rlon2 - rlon1
        sdlat == Sin(RoundHalfEven(dlat, 2))
        sdlon == Sin(RoundHalfEven(dlon, 2))
    IN  FMul(sdlat, sdlat) + FMul(FMul(Cos(rlat1), Cos(rlat1)), FMul(sdlon, sdlon))

HaversineA(lat1, lon1, lat2, lon2) ==
    LET rlat1 == Radians(lat1)
        rlon1 == Radians(lon1)
        rlat2 == Radians(lat2)
        rlon2 == Radians(lon2)
        dlat == rlat2 - rlat1
        dlon == rlon2 - rlon1
        sdlat == Sin(RoundHalfEven(dlat, 2))
        sdlon == Sin(RoundHalfEven(dlon, 2))
    IN  FMul(sdlat, sdlat) + FMul(FMul(Cos(rlat1), Cos(rlat2)), FMul(sdlon, sdlon))

\* the outcome of a call: a value in thousandths of a kilometre, or the
\* ValueError ("math domain error") math.sqrt raises on a negative argument
Returned(v) == [raised |-> FALSE, value |-> v]

ValueError == [raised |-> TRUE, value |-> 0]

haversine_distance(lat1, lon1, lat2, lon2) ==
    LET a == HaversineA(lat1, lon1, lat2, lon2)
    IN  IF a < 0 \/ 1000 - a < 0 THEN ValueError
        ELSE Returned(6371 * (2 * Atan2(Sqrt(a), Sqrt(1000 - a))))

\* degrees
Latitudes == {10 * i : i \in (-MaxLat)..MaxLat}

Longitudes == {90 * i : i \in (-MaxLon)..MaxLon}

NoBreakdown == [base_fee |-> Rat(0, 1), distance_cost |-> Rat(0, 1), subtotal |-> Rat(0, 1),
                surge_multiplier |-> Rat(0, 1), surge_amount |-> Rat(0, 1),
                discount_percent |-> Rat(0, 1), discount_amount |-> Rat(0, 1),
                final_total |-> Rat(0, 1)]

NoDistance == Returned(0)

\* a call of calculate_delivery_cost on arbitrary arguments
Init ==
    /\ distance_km \in Distances
    /\ base_fee \in BaseFees
    /\ per_km_rate \in Rates
    /\ surge_multiplier \in Surges
    /\ discount_percent \in Discounts
    /\ min_total \in MinTotals
    /\ cost_breakdown = NoBreakdown
    /\ pickup_lat = 0 /\ pickup_lon = 0 /\ drop_lat = 0 /\ drop_lon = 0
    /\ distance = NoDistance
    /\ pc = "call"

CalculateDeliveryCost ==
    /\ pc = "call"
    /\ cost_breakdown' = calculate_delivery_cost(distance_km, base_fee, per_km_rate,
                                                 surge_multiplier, discount_percent, min_total)
    /\ pc' = "done"
    /\ UNCHANGED <<distance_km, base_fee, per_km_rate, surge_multiplier,
                   discount_percent, min_total, geoVars>>

Next == CalculateDeliveryCost

Spec == Init /\ [][Next]_vars

\* a call of haversine_distance on arbitrary coordinates
InitGeo ==
    /\ pickup_lat \in Latitudes
    /\ pickup_lon \in Longitudes
    /\ drop_lat \in Latitudes
    /\ drop_lon \in Longitudes
    /\ distance = NoDistance
    /\ distance_km = Rat(0, 100)
    /\ base_fee = Rat(20, 1)
    /\ per_km_rate = Rat(10, 1)
    /\ surge_multiplier = Rat(10, 10)
    /\ discount_percent = Rat(0, 1)
    /\ min_total = Rat(30, 1)
    /\ cost_breakdown = NoBreakdown
    /\ pc = "call"

HaversineDistance ==
    /\ pc = "call"
    /\ distance' = haversine_distance(pickup_lat, pickup_lon, drop_lat, drop_lon)
    /\ pc' = "done"
    /\ UNCHANGED <<pickup_lat, pickup_lon, drop_lat, drop_lon, costVars>>

NextGeo == HaversineDistance

SpecGeo == InitGeo /\ [][NextGeo]_vars

\* ===================================================== properties
Done == pc = "done"

Zero == Rat(0, 1)

\* x is a whole number of hundredths
HasTwoDecimals(x) == IF x.d <= 100 THEN TRUE ELSE x.n % (x.d \div 100) = 0

\* the intermediate values of the call in progress
subtotalNow == Subtotal(distance_km, base_fee, per_km_rate)

surchargedNow == Surcharged(distance_km, base_fee, per_km_rate, surge_multiplier)

discountedNow == Discounted(distance_km, base_fee, per_km_rate, surge_multiplier, discount_percent)

FloorActive == Less(discountedNow, min_total)

\* the breakdown the same call returns for another distance, another floor
BreakdownAtDistance(d2) ==
    calculate_delivery_cost(d2, base_fee, per_km_rate, surge_multiplier, discount_percent, min_total)

BreakdownAtFloor(t2) ==
    calculate_delivery_cost(distance_km, base_fee, per_km_rate, surge_multiplier, discount_percent, t2)

\* the sum the waterfall chart draws
ItemizedSum == Sub(Add(Add(cost_breakdown.base_fee, cost_breakdown.distance_cost),
                       cost_breakdown.surge_amount),
                   cost_breakdown.discount_amount)

\* the formula of the specification written out on the numerators: distance
\* in hundredths, rate and surge in tenths, money in thousandths, percent whole
refSubtotal3 == base_fee.n + distance_km.n * per_km_rate.n

refSurcharged4 == refSubtotal3 * surge_multiplier.n

refSurge4 == refSurcharged4 - 10 * refSubtotal3

refDiscount6 == refSurcharged4 * discount_percent.n

refDiscounted6 == refSurcharged4 * (100 - discount_percent.n)

refFinal6 == IF refDiscounted6 >= 1000 * min_total.n THEN refDiscounted6 ELSE 1000 * min_total.n

Cents(n) == Rat(n, 100)

\* ---- C1
\* C1 (as stated): the returned final_total is never less than min_total,
\* whatever the parameters.
C1_FinalTotalNeverBelowMinTotal ==
    Done => ~Less(cost_breakdown.final_total, min_total)

\* C1 (amended): the returned final_total is never less than min_total
\* rounded to 2 decimals, whatever the parameters.
C1_FinalTotalNeverBelowRoundedMinTotal ==
    Done => Leq(Round2(min_total), cost_breakdown.final_total)

C1_Witness ==
    /\ Done
    /\ FloorActive
    /\ discount_percent.n > 100
    /\ base_fee.n < 0
    /\ min_total.n > 0
    /\ Eq(cost_breakdown.final_total, Round2(min_total))

\* ---- C2
\* C2 (as stated): with surge_multiplier >= 0, a call that differs only in a
\* larger distance_km never returns a smaller final_total.
C2_MonotoneInDistance ==
    (Done /\ surge_multiplier.n >= 0) =>
        \A d2 \in Distances :
            Leq(distance_km, d2) =>
                Leq(cost_breakdown.final_total, BreakdownAtDistance(d2).final_total)

\* C2 (amended): with surge_multiplier >= 0, per_km_rate >= 0 and
\* discount_percent <= 100, a call that differs only in a larger distance_km
\* never returns a smaller final_total.
C2_MonotoneInDistanceInRange ==
    (Done /\ surge_multiplier.n >= 0 /\ per_km_rate.n >= 0 /\ discount_percent.n <= 100) =>
        \A d2 \in Distances :
            Leq(distance_km, d2) =>
                Leq(cost_breakdown.final_total, BreakdownAtDistance(d2).final_total)

C2_Witness ==
    /\ Done
    /\ surge_multiplier.n > 0 /\ per_km_rate.n > 0 /\ discount_percent.n < 100
    /\ \E d2 \in Distances :
          /\ Less(distance_km, d2)
          /\ Less(cost_breakdown.final_total, BreakdownAtDistance(d2).final_total)

\* ---- C3
\* C3: every monetary field of the breakdown (base_fee, distance_cost,
\* subtotal, surge_amount, discount_amount, final_total) has exactly 2
\* decimals; surge_multiplier and discount_percent are the inputs unchanged.
C3_MonetaryFieldsRounded ==
    Done =>
        /\ HasTwoDecimals(cost_breakdown.base_fee)
        /\ HasTwoDecimals(cost_breakdown.distance_cost)
        /\ HasTwoDecimals(cost_breakdown.subtotal)
        /\ HasTwoDecimals(cost_breakdown.surge_amount)
        /\ HasTwoDecimals(cost_breakdown.discount_amount)
        /\ HasTwoDecimals(cost_breakdown.final_total)
        /\ cost_breakdown.surge_multiplier = surge_multiplier
        /\ cost_breakdown.discount_percent = discount_percent

\* ---- C4
\* C4: the result is derived in sequence, surge before discount:
\* distance_cost = distance_km * per_km_rate, subtotal = base_fee +
\* distance_cost, surge_amount = subtotal * surge - subtotal, discount_amount
\* = subtotal * surge * discount_percent / 100, final_total = max(subtotal *
\* surge * (1 - discount_percent / 100), min_total), each rounded to 2
\* decimals at output only; distance 10, base 20, rate 10, surge 1.5,
\* discount 20 gives 100, 120, 60, 36, 144.
C4_SequentialDerivation ==
    Done =>
        /\ cost_breakdown.distance_cost = Cents(RoundHalfEven(distance_km.n * per_km_rate.n, 10))
        /\ cost_breakdown.subtotal = Cents(RoundHalfEven(refSubtotal3, 10))
        /\ cost_breakdown.surge_amount = Cents(RoundHalfEven(refSurge4, 100))
        /\ cost_breakdown.discount_amount = Cents(RoundHalfEven(refDiscount6, 10000))
        /\ cost_breakdown.final_total = Cents(RoundHalfEven(refFinal6, 10000))
        /\ ( /\ distance_km = Rat(1000, 100) /\ base_fee = Rat(20000, 1000)
             /\ per_km_rate = Rat(100, 10) /\ surge_multiplier = Rat(15, 10)
             /\ discount_percent = Rat(20, 1) /\ min_total = Rat(30000, 1000) )
           => /\ cost_breakdown.distance_cost = Cents(10000)
              /\ cost_breakdown.subtotal = Cents(12000)
              /\ cost_breakdown.surge_amount = Cents(6000)
              /\ cost_breakdown.discount_amount = Cents(3600)
              /\ cost_breakdown.final_total = Cents(14400)

C4_Witness ==
    /\ Done
    /\ distance_km = Rat(1000, 100) /\ base_fee = Rat(20000, 1000)
    /\ per_km_rate = Rat(100, 10) /\ surge_multiplier = Rat(15, 10)
    /\ discount_percent = Rat(20, 1) /\ min_total = Rat(30000, 1000)
    /\ cost_breakdown.final_total = Cents(14400)

\* ---- C5
\* C5 (as stated): surge_amount >= 0 whenever surge_multiplier >= 1, and 0
\* when surge_multiplier = 1.0, whatever the other parameters.
C5_SurgeAmountNonNegative ==
    (Done /\ surge_multiplier.n >= surge_multiplier.d) =>
        /\ Leq(Zero, cost_breakdown.surge_amount)
        /\ surge_multiplier.n = surge_multiplier.d => Eq(cost_breakdown.surge_amount, Zero)

\* C5 (amended): surge_amount >= 0 whenever surge_multiplier >= 1 and the
\* subtotal base_fee + distance_km * per_km_rate is >= 0; it is 0 when
\* surge_multiplier = 1.0, whatever the other parameters.
C5_SurgeAmountNonNegativeOnNonNegativeSubtotal ==
    (Done /\ surge_multiplier.n >= surge_multiplier.d) =>
        /\ Leq(Zero, subtotalNow) => Leq(Zero, cost_breakdown.surge_amount)
        /\ surge_multiplier.n = surge_multiplier.d => Eq(cost_breakdown.surge_amount, Zero)

C5_Witness ==
    /\ Done
    /\ surge_multiplier.n > surge_multiplier.d
    /\ Less(Zero, subtotalNow)
    /\ Less(Zero, cost_breakdown.surge_amount)

\* ---- C6
\* C6 (as stated): discount_amount >= 0 whenever discount_percent is in
\* [0, 100], whatever the other parameters.
C6_DiscountAmountNonNegative ==
    (Done /\ discount_percent.n >= 0 /\ discount_percent.n <= 100) =>
        Leq(Zero, cost_breakdown.discount_amount)

\* C6 (amended): discount_amount >= 0 whenever discount_percent is in
\* [0, 100] and the surcharged amount (base_fee + distance_km * per_km_rate)
\* * surge_multiplier is >= 0.
C6_DiscountAmountNonNegativeOnNonNegativeSurcharged ==
    (Done /\ discount_percent.n >= 0 /\ discount_percent.n <= 100 /\ Leq(Zero, surchargedNow)) =>
        Leq(Zero, cost_breakdown.discount_amount)

C6_Witness ==
    /\ Done
    /\ discount_percent.n > 0 /\ discount_percent.n <= 100
    /\ Less(Zero, surchargedNow)
    /\ Less(Zero, cost_breakdown.discount_amount)

\* ---- C7
\* C7: haversine_distance(lat1, lon1, lat2, lon2) and haversine_distance(lat2,
\* lon2, lat1, lon1) have the same outcome, for all coordinate pairs.
C7_DistanceSymmetric ==
    Done => distance = haversine_distance(drop_lat, drop_lon, pickup_lat, pickup_lon)

C7_Witness ==
    /\ Done
    /\ pickup_lat # drop_lat /\ pickup_lon # drop_lon
    /\ ~distance.raised
    /\ distance.value > 0

\* ---- C8
\* C8: haversine_distance returns exactly 0 for identical coordinates, and
\* for any finite inputs it returns a non-negative number.
C8_ZeroAndNonNegative ==
    Done =>
        /\ ~distance.raised
        /\ distance.value >= 0
        /\ (pickup_lat = drop_lat /\ pickup_lon = drop_lon) => distance.value = 0

C10_ItemsReconcileWithoutFloor ==
    ( /\ Done
      /\ ~FloorActive
      /\ HasTwoDecimals(base_fee)
      /\ HasTwoDecimals(DistanceCost(distance_km, per_km_rate))
      /\ HasTwoDecimals(subtotalNow)
      /\ HasTwoDecimals(surchargedNow)
      /\ HasTwoDecimals(discountedNow) ) =>
        /\ Eq(ItemizedSum, cost_breakdown.final_total)
        /\ Eq(cost_breakdown.subtotal, Add(cost_breakdown.base_fee, cost_breakdown.distance_cost))

C10_Witness ==
    /\ Done
    /\ ~FloorActive
    /\ HasTwoDecimals(base_fee)
    /\ HasTwoDecimals(DistanceCost(distance_km, per_km_rate))
    /\ HasTwoDecimals(subtotalNow)
    /\ HasTwoDecimals(surchargedNow)
    /\ HasTwoDecimals(discountedNow)
    /\ Less(Zero, cost_breakdown.surge_amount)
    /\ Less(Zero, cost_breakdown.discount_amount)
    /\ Eq(ItemizedSum, cost_breakdown.final_total)

====
